---- MODULE Spec2Model ----
(***************************************************************************)
(* A model of the calculation graph: GraphManager (graph/graph_manager.py),*)
(* GraphNode (graph/graph_node.py) and NodeFactory (graph/node_factory.py).*)
(*                                                                         *)
(* A node object is identified by its id.  Node ids are the integers of    *)
(* Node; a node has only nodes with a smaller id as parents, which is how  *)
(* the model keeps to the user contract that the graph is acyclic.         *)
(* A method is an operator from the program's objects to its objects.      *)
(* calculate() is modelled step by step where it calls methods that node   *)
(* types override: the recursion of validate() is a stack of frames, one   *)
(* per active call, and the loops of calculate() and validate() over a     *)
(* Python set take its elements in any order.                              *)
(* Five kinds of user program are specified: Spec gets and adds nodes and  *)
(* marks them for calculation, SpecGC gets and releases nodes, SpecEdges   *)
(* changes the edges of nodes itself, SpecSources gives its source nodes   *)
(* good and bad data and dumps the graph, SpecLate has two node types that *)
(* rebuild; each calls calculate() in between.                             *)
(* SpecQuality is a program that calls the methods of Quality objects      *)
(* (graph/quality.py).                                                     *)
(*                                                                         *)
(* NodeFactory.get_node passes graph_manager.environment to the node it    *)
(* makes (node_factory.py, line 25); GraphManager.__init__ sets no such    *)
(* attribute.  The environment is the application's object, and the model  *)
(* is of a program that has set it on its manager.                         *)
(***************************************************************************)
EXTENDS Integers, FiniteSets, Sequences, TLC

\* ------------------------------------------------------------------ bounds
\* The node ids of the model are 1..NumNodes.
NumNodes == 4
\* calculate() is called at most MaxCycles times.
MaxCycles == 2
\* NodeFactory.get_node, add_node and needs_calculation are called at most
\* MaxOps times between the cycles.
MaxOps == 2
\* release_node is called at most MaxReleases times between the cycles.
MaxReleases == 2
\* A node is pinned at most MaxRefCount times at once.
MaxRefCount == 2
\* release_node() is called on a node until its ref-count is -MaxUnderflow.
MaxUnderflow == 1
\* At most MaxEdgeOps calls of a node's own methods that change its edges, or
\* of dispose(), are made between the cycles, by a program that calls
\* NodeFactory.get_node at most MaxEdgeGets times.
MaxEdgeOps == 2
MaxEdgeGets == 1
\* The user's calls of add_parent and add_parent_node give a node only
\* parents whose id is less than its own by at most MaxSpan.
MaxSpan == 2
\* The user holds NumQualities Quality objects and gives them descriptions
\* out of NumDescriptions strings.
NumQualities == 3
NumDescriptions == 2
\* In a program that gives its sources data, NodeFactory.get_node, set_value
\* and dump are called at most MaxSourceOps times between the cycles.
MaxSourceOps == 3

\* --------------------------------------------------------- program constants
COLLECTABLE == 1
NON_COLLECTABLE == 2
CALCULATE_CHILDREN == 1
DO_NOT_CALCULATE_CHILDREN == 2
\* Python's None, where a node is expected.
None == 0

\* Quality.GOOD and Quality.BAD
GOOD == "Good"
BAD == "Bad"

Node == 1..NumNodes
\* The Quality objects the user holds, and the description strings.
QualityObject == 1..NumQualities
Description == 1..NumDescriptions

VARIABLES
  \* GraphManager
  _nodes,                               \* ids of the nodes in the graph
  _non_collectable_nodes,
  _changed_nodes,
  _nodes_with_updated_parents,
  _new_node_ids,
  _new_parents_this_calculation_cycle,  \* dict: node -> set, {} for no key
  _nodes_with_updated_late_parents,     \* dict: node -> set, {} for no key
  late_shared,   \* keys of _nodes_with_updated_late_parents whose value is the
                 \* very set object held by _new_parents_this_calculation_cycle
  _gc_required,
  _is_calculating,
  \* GraphNode, one value per node object
  _parent_nodes,
  _child_nodes,
  _child_nodes_for_this_calculation_cycle,
  _invalid_count,
  _needs_calculation,
  _updated_parent_nodes,
  _gc_type,
  _gc_ref_count,
  has_calculated,
  _auto_rebuild_nodes,
  quality,
  source_is_good,        \* of a SourceNode: the data the user gave it is good
  has_set_dependencies,  \* history: set_dependencies() was called on the node
  \* where calculate() is, and its local variables
  pc,
  stack,          \* the active validate() calls, innermost last
  changed_nodes,  \* calculate(): the copy of _changed_nodes
  todo,           \* what a loop of the manager has still to visit
  \* history
  calc_log,       \* the nodes whose calculate() ran in this cycle, in order
  dnc_returned,   \* a calculate() of this cycle returned
                  \* DO_NOT_CALCULATE_CHILDREN
  forced,         \* the nodes whose _needs_calculation a parent's validate()
                  \* has set in this cycle
  inv_parents,    \* each node's parents when it went invalid in this cycle
  resets,         \* the nodes that ran reset_dependencies() in this cycle
  gc_ran,         \* the sweep of _perform_gc ran in this cycle
  released,       \* nodes whose ref-count release_node() brought to zero
  raised,         \* the exception the last operation ended with, or "none"
  pins,           \* per node id, the factory's NON_COLLECTABLE requests that
                  \* no release_node call has answered yet
  \* Quality objects the user holds
  qualities,
  \* the node types of the program: what set_dependencies() of each node may
  \* declare
  node_types,
  \* the calls the user may still make
  cycles,         \* of calculate()
  ops,            \* of NodeFactory.get_node, add_node and needs_calculation
  releases,       \* of release_node
  edge_ops        \* of a node's edge methods and of dispose()

mgrVars == <<_nodes, _non_collectable_nodes, _changed_nodes,
             _nodes_with_updated_parents, _new_node_ids,
             _new_parents_this_calculation_cycle,
             _nodes_with_updated_late_parents, late_shared, _gc_required,
             _is_calculating>>
nodeVars == <<_parent_nodes, _child_nodes,
              _child_nodes_for_this_calculation_cycle, _invalid_count,
              _needs_calculation, _updated_parent_nodes, _gc_type,
              _gc_ref_count, has_calculated, _auto_rebuild_nodes, quality,
              source_is_good, has_set_dependencies>>
ctlVars == <<pc, stack, changed_nodes, todo>>
histVars == <<calc_log, dnc_returned, forced, inv_parents, resets, gc_ran,
              released, raised>>
budgetVars == <<cycles, ops, releases, edge_ops>>
\* What no step of calculate() changes.
userVars == <<pins, qualities, node_types, budgetVars>>
vars == <<mgrVars, nodeVars, ctlVars, histVars, pins, qualities, node_types,
          budgetVars>>

\* The objects of the program as one value, so that a method is an operator
\* from heap to heap and a call inside a method is an application.
heap ==
  [ _nodes |-> _nodes,
    _non_collectable_nodes |-> _non_collectable_nodes,
    _changed_nodes |-> _changed_nodes,
    _nodes_with_updated_parents |-> _nodes_with_updated_parents,
    _new_node_ids |-> _new_node_ids,
    _new_parents_this_calculation_cycle |-> _new_parents_this_calculation_cycle,
    _nodes_with_updated_late_parents |-> _nodes_with_updated_late_parents,
    late_shared |-> late_shared,
    _gc_required |-> _gc_required,
    _is_calculating |-> _is_calculating,
    _parent_nodes |-> _parent_nodes,
    _child_nodes |-> _child_nodes,
    _child_nodes_for_this_calculation_cycle |-> _child_nodes_for_this_calculation_cycle,
    _invalid_count |-> _invalid_count,
    _needs_calculation |-> _needs_calculation,
    _updated_parent_nodes |-> _updated_parent_nodes,
    _gc_type |-> _gc_type,
    _gc_ref_count |-> _gc_ref_count,
    has_calculated |-> has_calculated,
    _auto_rebuild_nodes |-> _auto_rebuild_nodes,
    quality |-> quality,
    source_is_good |-> source_is_good,
    has_set_dependencies |-> has_set_dependencies ]

\* The program's objects become those of h.
Becomes(h) ==
  /\ _nodes' = h._nodes
  /\ _non_collectable_nodes' = h._non_collectable_nodes
  /\ _changed_nodes' = h._changed_nodes
  /\ _nodes_with_updated_parents' = h._nodes_with_updated_parents
  /\ _new_node_ids' = h._new_node_ids
  /\ _new_parents_this_calculation_cycle' = h._new_parents_this_calculation_cycle
  /\ _nodes_with_updated_late_parents' = h._nodes_with_updated_late_parents
  /\ late_shared' = h.late_shared
  /\ _gc_required' = h._gc_required
  /\ _is_calculating' = h._is_calculating
  /\ _parent_nodes' = h._parent_nodes
  /\ _child_nodes' = h._child_nodes
  /\ _child_nodes_for_this_calculation_cycle' = h._child_nodes_for_this_calculation_cycle
  /\ _invalid_count' = h._invalid_count
  /\ _needs_calculation' = h._needs_calculation
  /\ _updated_parent_nodes' = h._updated_parent_nodes
  /\ _gc_type' = h._gc_type
  /\ _gc_ref_count' = h._gc_ref_count
  /\ has_calculated' = h.has_calculated
  /\ _auto_rebuild_nodes' = h._auto_rebuild_nodes
  /\ quality' = h.quality
  /\ source_is_good' = h.source_is_good
  /\ has_set_dependencies' = h.has_set_dependencies

\* ------------------------------------------------------------------ Quality

Quality__init__ == [_quality |-> BAD, _descriptions |-> {}]

Quality__eq__(self, other) ==
  IF self._quality # other._quality
  THEN FALSE
  ELSE IF self._descriptions # other._descriptions
       THEN FALSE
       ELSE TRUE

clear_to_good(self) == [self EXCEPT !._quality = GOOD, !._descriptions = {}]

set_to_bad(self, description) ==
  [self EXCEPT !._quality = BAD, !._descriptions = {description}]

set_from(self, other) ==
  [self EXCEPT !._quality = other._quality,
               !._descriptions = other._descriptions]

\* _merge_quality that takes the level passed in, whatever it is.
_merge_quality_taking_level(self, a_quality) ==
  [self EXCEPT !._quality = a_quality]

_merge_quality(self, a_quality) ==
  IF a_quality = BAD THEN [self EXCEPT !._quality = BAD] ELSE self

\* merge(quality, description): with a description, quality is a level; with
\* None, quality is a Quality object.
merge(self, a_quality, description) ==
  IF description # None
  THEN [_merge_quality(self, a_quality) EXCEPT
          !._descriptions = @ \cup {description}]
  ELSE [_merge_quality(self, a_quality._quality) EXCEPT
          !._descriptions = @ \cup a_quality._descriptions]

\* ------------------------------------------------------------- GraphManager

\* GraphManager.__init__ and the fields of node objects not yet constructed.
GraphManager__init__ ==
  [ _nodes |-> {},
    _non_collectable_nodes |-> {},
    _changed_nodes |-> {},
    _nodes_with_updated_parents |-> {},
    _new_node_ids |-> {},
    _new_parents_this_calculation_cycle |-> [n \in Node |-> {}],
    _nodes_with_updated_late_parents |-> [n \in Node |-> {}],
    late_shared |-> {},
    _gc_required |-> FALSE,
    _is_calculating |-> FALSE,
    _parent_nodes |-> [n \in Node |-> {}],
    _child_nodes |-> [n \in Node |-> {}],
    _child_nodes_for_this_calculation_cycle |-> [n \in Node |-> {}],
    _invalid_count |-> [n \in Node |-> 0],
    _needs_calculation |-> [n \in Node |-> TRUE],
    _updated_parent_nodes |-> [n \in Node |-> {}],
    _gc_type |-> [n \in Node |-> COLLECTABLE],
    _gc_ref_count |-> [n \in Node |-> 0],
    has_calculated |-> [n \in Node |-> FALSE],
    _auto_rebuild_nodes |-> [n \in Node |-> {}],
    quality |-> [n \in Node |-> Quality__init__],
    source_is_good |-> [n \in Node |-> FALSE],
    has_set_dependencies |-> [n \in Node |-> FALSE] ]

\* GraphNode.__init__: a new node object with the id n.  The object that had
\* this id before is dead, and what still refers to it refers to no node of
\* the graph: the new object is in nobody's auto-rebuild set.
GraphNode__init__(h, n) ==
  [h EXCEPT
     !._parent_nodes[n] = {},
     !._child_nodes[n] = {},
     !._child_nodes_for_this_calculation_cycle[n] = {},
     !._invalid_count[n] = 0,
     !._needs_calculation[n] = TRUE,
     !._updated_parent_nodes[n] = {},
     !._gc_type[n] = COLLECTABLE,
     !._gc_ref_count[n] = 0,
     !.has_calculated[n] = FALSE,
     !.quality[n] = Quality__init__,
     !.source_is_good[n] = FALSE,
     !.has_set_dependencies[n] = FALSE,
     !._auto_rebuild_nodes =
        [x \in Node |-> IF x = n THEN {} ELSE h._auto_rebuild_nodes[x] \ {n}] ]

has_node(h, node_id) == node_id \in h._nodes

\* needs_calculation that tells the manager and leaves the node's flag.
needs_calculation_of_manager_only(h, node) ==
  [h EXCEPT !._changed_nodes = @ \cup {node}]

\* needs_calculation that sets the node's flag only.
needs_calculation_of_node_only(h, node) ==
  [h EXCEPT !._needs_calculation[node] = TRUE]

needs_calculation(h, node) ==
  [h EXCEPT !._needs_calculation[node] = TRUE,
            !._changed_nodes = @ \cup {node}]

\* add_node raises GraphException for the id of a node of the graph.
add_node_raises(h, node) == has_node(h, node)

\* add_node that registers the node before it looks for its id.
add_node_registering_first(h, node) ==
  LET h1 == [h EXCEPT !._nodes = @ \cup {node}]
      h2 == needs_calculation(h1, node)
  IN  [h2 EXCEPT !._new_node_ids = @ \cup {node}]

\* add_node of the node object whose node_id is node; when it raises, the
\* objects are as they were.
add_node(h, node) ==
  IF has_node(h, node)
  THEN h
  ELSE LET h1 == [h EXCEPT !._nodes = @ \cup {node}]
           h2 == needs_calculation(h1, node)
       IN  [h2 EXCEPT !._new_node_ids = @ \cup {node}]

link_removed(h) == [h EXCEPT !._gc_required = TRUE]

update_gc_info_for_node(h, node) ==
  IF h._gc_type[node] = NON_COLLECTABLE
  THEN [h EXCEPT !._non_collectable_nodes = @ \cup {node}]
  ELSE [h EXCEPT !._non_collectable_nodes = @ \ {node}]

node_has_updated_parents(h, node) ==
  [h EXCEPT !._nodes_with_updated_parents = @ \cup {node}]

\* _mark_nodes_with_updated_late_parents: "for parent, children in <dict>"
\* takes the dict's keys, which are node objects, and unpacking a node object
\* raises TypeError; the loop body is never reached. With an empty dict the
\* loop does nothing and the dict is cleared.
_mark_nodes_with_updated_late_parents_raises(h) ==
  \E parent \in Node : h._nodes_with_updated_late_parents[parent] # {}

_mark_nodes_with_updated_late_parents(h) ==
  [h EXCEPT !._nodes_with_updated_late_parents = [n \in Node |-> {}],
            !.late_shared = {}]

\* parents_updated: the child is added to the set held under each new parent;
\* a late-parent entry made from that very set object sees the addition too.
parents_updated(h, node, new_parents) ==
  IF ~h._is_calculating
  THEN h
  ELSE [h EXCEPT
          !._new_parents_this_calculation_cycle =
             [p \in Node |-> IF p \in new_parents THEN @[p] \cup {node} ELSE @[p]],
          !._nodes_with_updated_late_parents =
             [p \in Node |-> IF p \in new_parents /\ p \in h.late_shared
                             THEN @[p] \cup {node} ELSE @[p]] ]

node_calculated(h, node) ==
  IF h._new_parents_this_calculation_cycle[node] = {}
  THEN h
  ELSE [h EXCEPT
          !._nodes_with_updated_late_parents[node] =
             h._new_parents_this_calculation_cycle[node],
          !.late_shared = @ \cup {node}]

\* clear_updated_parents that empties the manager's set and leaves the nodes'
\* own sets alone.
clear_updated_parents_of_manager_only(h) ==
  [h EXCEPT !._nodes_with_updated_parents = {}]

\* clear_updated_parents of the manager, with GraphNode.clear_updated_parents.
clear_updated_parents(h) ==
  [h EXCEPT
     !._updated_parent_nodes =
        [n \in Node |-> IF n \in h._nodes_with_updated_parents THEN {} ELSE @[n]],
     !._nodes_with_updated_parents = {}]

\* calculate(), lines 164-169: what follows the validate loop, up to the GC.
\* Clearing the dict of new parents leaves its set objects to the late-parent
\* entries alone.
after_validate(h) ==
  LET h1 == clear_updated_parents(h)
      h2 == [h1 EXCEPT
               !._new_parents_this_calculation_cycle = [n \in Node |-> {}],
               !.late_shared = {}]
  IN  IF _mark_nodes_with_updated_late_parents_raises(h2)
      THEN h2
      ELSE _mark_nodes_with_updated_late_parents(h2)

\* ---------------------------------------------------------------- GraphNode

\* add_parent that forgets the parent's side of the edge.
add_parent_one_sided(h, self, node) ==
  IF node \notin h._parent_nodes[self]
  THEN [h EXCEPT !._parent_nodes[self] = @ \cup {node}]
  ELSE h

add_parent(h, self, node) ==
  IF node \notin h._parent_nodes[self]
  THEN [h EXCEPT !._parent_nodes[self] = @ \cup {node},
                 !._child_nodes[node] = @ \cup {self}]
  ELSE h

remove_parent(h, self, node) ==
  IF node \notin h._parent_nodes[self]
  THEN h
  ELSE link_removed([h EXCEPT !._parent_nodes[self] = @ \ {node},
                              !._child_nodes[node] = @ \ {self}])

\* remove_parents that asks for a collection only if it removed a parent.
remove_parents_latching_on_removal(h, self) ==
  IF h._parent_nodes[self] = {} THEN h
  ELSE link_removed(
         [h EXCEPT
            !._child_nodes =
               [p \in Node |-> IF p \in h._parent_nodes[self] THEN @[p] \ {self} ELSE @[p]],
            !._parent_nodes[self] = {}])

remove_parents(h, self) ==
  link_removed(
    [h EXCEPT
       !._child_nodes =
          [p \in Node |-> IF p \in h._parent_nodes[self] THEN @[p] \ {self} ELSE @[p]],
       !._parent_nodes[self] = {}])

remove_children(h, self) ==
  [h EXCEPT
     !._parent_nodes =
        [c \in Node |-> IF c \in h._child_nodes[self] THEN @[c] \ {self} ELSE @[c]],
     !._child_nodes[self] = {}]

\* cleanup; GraphNode.dispose() does nothing.
cleanup(h, self) == remove_children(remove_parents(h, self), self)

add_updated_parent(h, self, node) ==
  node_has_updated_parents(
    [h EXCEPT !._updated_parent_nodes[self] = @ \cup {node}], self)

set_gc_type(h, self, gc_type) ==
  update_gc_info_for_node([h EXCEPT !._gc_type[self] = gc_type], self)

add_gc_ref_count(h, self) == [h EXCEPT !._gc_ref_count[self] = @ + 1]

release_gc_ref_count(h, self) == [h EXCEPT !._gc_ref_count[self] = @ - 1]

\* -------------------------------------------------------------- NodeFactory

\* NodeFactory.get_node that makes and adds a node without looking for the id.
get_node_without_find_node(h, gc_type, node_id) ==
  LET h1 == add_node_registering_first(GraphNode__init__(h, node_id), node_id)
  IN  IF gc_type = NON_COLLECTABLE
      THEN set_gc_type(add_gc_ref_count(h1, node_id), node_id, NON_COLLECTABLE)
      ELSE h1

\* NodeFactory.get_node for the node type and identity whose id is node_id.
get_node(h, gc_type, node_id) ==
  LET h1 == IF ~has_node(h, node_id)
            THEN add_node(GraphNode__init__(h, node_id), node_id)
            ELSE h
  IN  IF gc_type = NON_COLLECTABLE
      THEN set_gc_type(add_gc_ref_count(h1, node_id), node_id, NON_COLLECTABLE)
      ELSE h1

add_parent_node(h, self, node, auto_rebuild) ==
  LET h1 == add_parent(get_node(h, COLLECTABLE, node), self, node)
  IN  IF auto_rebuild
      THEN [h1 EXCEPT !._auto_rebuild_nodes[self] = @ \cup {node}]
      ELSE h1

\* What a call of a node's set_dependencies() declares: d.parents are the
\* nodes it passes to add_parent_node, d.auto those it passes with
\* auto_rebuild=True.
Dep(parents, auto) == [parents |-> parents, auto |-> auto]

\* The node types of the model, by what their set_dependencies() may declare
\* (which of them a call declares depends on the node's data). Node 1 is a
\* source; node 2 may depend on it; node 3 depends on 1, or on 2 with auto
\* rebuild, or on both; node 4 depends on 3, or on 2 and 3. Together they make
\* chains, a shared parent, the diamond 1 -> {2, 3} -> 4, and a node that, when
\* it rebuilds, takes a new parent or drops one.
DepChoices(n) ==
  CASE n = 2 -> {Dep({}, {}), Dep({1}, {})}
    [] n = 3 -> {Dep({1}, {}), Dep({2}, {2}), Dep({1, 2}, {2})}
    [] n = 4 -> {Dep({2, 3}, {}), Dep({3}, {})}
    [] OTHER -> {Dep({}, {})}

\* The node types of a program whose node 4 rebuilds as well: it depends on 3
\* with auto rebuild, and on 1 or not.
DepChoicesRebuilding(n) ==
  CASE n = 4 -> {Dep({3}, {3}), Dep({1, 3}, {3})}
    [] OTHER -> DepChoices(n)

\* The parents the user's own calls of add_parent and add_parent_node may
\* give the node n.
Lower(n) == {m \in Node : m < n /\ n - m <= MaxSpan}

NoDeps == [parents |-> {}, auto |-> {}]

\* set_dependencies() of a node that declares d: one add_parent_node a parent.
RECURSIVE set_dependencies(_, _, _)
set_dependencies(h, self, d) ==
  IF d.parents = {}
  THEN [h EXCEPT !.has_set_dependencies[self] = TRUE]
  ELSE LET p == CHOOSE x \in d.parents : TRUE
       IN  set_dependencies(add_parent_node(h, self, p, p \in d.auto), self,
                            [d EXCEPT !.parents = @ \ {p}])

\* reset_dependencies that keeps the auto-rebuild set of the old declaration.
reset_dependencies_keeping_auto_rebuild(h, self, d) ==
  LET parents_before_reset == h._parent_nodes[self]
      h2 == set_dependencies(remove_parents(h, self), self, d)
      new_parents == h2._parent_nodes[self] \ parents_before_reset
  IN  parents_updated(h2, self, new_parents)

reset_dependencies(h, self, d) ==
  LET h1 == [h EXCEPT !._auto_rebuild_nodes[self] = {}]
      parents_before_reset == h1._parent_nodes[self]
      h2 == set_dependencies(remove_parents(h1, self), self, d)
      new_parents == h2._parent_nodes[self] \ parents_before_reset
  IN  parents_updated(h2, self, new_parents)

\* pre_calculate: TRUE when it resets the dependencies.
pre_calculate_resets(h, self) ==
  h._updated_parent_nodes[self] \cap h._auto_rebuild_nodes[self] # {}

pre_calculate(h, self, d) ==
  IF pre_calculate_resets(h, self) THEN reset_dependencies(h, self, d) ELSE h

\* The loop of calculate_quality over the parents; the order in which it
\* takes them changes nothing.
RECURSIVE merge_each(_, _, _)
merge_each(h, self, parents) ==
  IF parents = {}
  THEN self
  ELSE LET parent_node == CHOOSE x \in parents : TRUE
       IN  merge_each(h, merge(self, h.quality[parent_node], None),
                      parents \ {parent_node})

\* calculate_quality that leaves out the parents' descriptions.
calculate_quality_without_descriptions(h, self) ==
  [h EXCEPT !.quality[self] =
     [merge_each(h, clear_to_good(@), h._parent_nodes[self])
        EXCEPT !._descriptions = {}]]

\* GraphNode.calculate_quality, which no node type of the model overrides.
calculate_quality(h, self) ==
  [h EXCEPT !.quality[self] =
     merge_each(h, clear_to_good(@), h._parent_nodes[self])]

\* The nodes whose type is a source of data, as the SourceNode of the tests:
\* its calculate() sets its quality from the data the user gave it, Bad with
\* a description that names the node.
SourceNodes == {n \in Node : n <= NumDescriptions}

\* SourceNode.set_value(value, source_is_good)
set_value(h, self, is_good) ==
  needs_calculation([h EXCEPT !.source_is_good[self] = is_good], self)

\* calculate() of the node's type, for what it does to the objects: the
\* calculate() of a source sets its quality, that of any other type leaves
\* the quality alone.
calculate(h, self) ==
  IF self \in SourceNodes
  THEN [h EXCEPT !.quality[self] =
          IF h.source_is_good[self]
          THEN clear_to_good(@)
          ELSE merge(clear_to_good(@), BAD, self)]
  ELSE h

\* invalidate(). It calls no method a node type overrides, and what its loop
\* over the captured children does to the objects does not depend on the
\* order of the set: the loop takes the children in some order.
RECURSIVE invalidate(_, _, _), invalidate_each(_, _, _)
\* invalidate() that marks the node invalid instead of counting its
\* invalidations.
invalidate_counting_once(h, self, parent) ==
  LET h1 == IF parent # None THEN add_updated_parent(h, self, parent) ELSE h
      h2 == [h1 EXCEPT !._invalid_count[self] = 1]
  IN  invalidate_each(
        [h2 EXCEPT !._child_nodes_for_this_calculation_cycle[self] =
                      h2._child_nodes[self]],
        self, h2._child_nodes[self])

\* invalidate() that walks the children without capturing them for validate().
invalidate_without_capture(h, self, parent) ==
  LET h1 == IF parent # None THEN add_updated_parent(h, self, parent) ELSE h
      h2 == [h1 EXCEPT !._invalid_count[self] = @ + 1]
  IN  IF h2._invalid_count[self] = 1
      THEN invalidate_each(h2, self, h2._child_nodes[self])
      ELSE h2

\* invalidate() that records the parent only if the parent needs calculation.
invalidate_recording_changed_parent(h, self, parent) ==
  LET h1 == IF parent # None /\ h._needs_calculation[parent]
            THEN add_updated_parent(h, self, parent) ELSE h
      h2 == [h1 EXCEPT !._invalid_count[self] = @ + 1]
  IN  IF h2._invalid_count[self] = 1
      THEN invalidate_each(
             [h2 EXCEPT !._child_nodes_for_this_calculation_cycle[self] =
                           h2._child_nodes[self]],
             self, h2._child_nodes[self])
      ELSE h2

invalidate(h, self, parent) ==
  LET h1 == IF parent # None THEN add_updated_parent(h, self, parent) ELSE h
      h2 == [h1 EXCEPT !._invalid_count[self] = @ + 1]
  IN  IF h2._invalid_count[self] = 1
      THEN invalidate_each(
             [h2 EXCEPT !._child_nodes_for_this_calculation_cycle[self] =
                           h2._child_nodes[self]],
             self, h2._child_nodes[self])
      ELSE h2

\* invalidate(), lines 234-235: the loop over the captured children.
invalidate_each(h, self, children) ==
  IF children = {}
  THEN h
  ELSE LET node == CHOOSE c \in children : TRUE
       IN  invalidate_each(invalidate(h, node, self), self, children \ {node})

\* validate() that calculates whenever the node needs it, whatever its
\* invalidation count.
validate_calculates_at_any_count(h, self) == h._needs_calculation[self]

\* validate() that calculates when the count gets to zero, whether the node
\* needs it or not.
validate_calculates_ignoring_flag(h, self) == h._invalid_count[self] - 1 = 0

\* validate(), lines 250-254: TRUE when this call runs the node's
\* calculate().
validate_calculates(h, self) ==
  h._invalid_count[self] - 1 = 0 /\ h._needs_calculation[self]

\* validate() with a positive invalidation count, up to its loop over the
\* captured children. d is what set_dependencies() declares if pre_calculate
\* resets the dependencies; the value calculate() returns changes no object.
validate(h, self, d) ==
  LET h1 == [h EXCEPT !._invalid_count[self] = @ - 1]
  IN  IF validate_calculates(h, self)
      THEN node_calculated(
             [calculate(calculate_quality(pre_calculate(h1, self, d), self),
                        self) EXCEPT
                !._needs_calculation[self] = FALSE,
                !.has_calculated[self] = TRUE], self)
      ELSE h1

\* ------------------------------------------- GraphManager: release, GC, dispose

release_node_raises(h, node) == h._gc_ref_count[node] - 1 < 0

\* release_node that does not ask for a collection.
release_node_without_gc_required(h, node) ==
  LET h1 == release_gc_ref_count(h, node)
      ref_count == h1._gc_ref_count[node]
  IN  IF ref_count < 0
      THEN h1
      ELSE IF ref_count = 0
           THEN set_gc_type(h1, node, COLLECTABLE)
           ELSE h1

release_node(h, node) ==
  LET h1 == release_gc_ref_count(h, node)
      ref_count == h1._gc_ref_count[node]
  IN  IF ref_count < 0
      THEN h1
      ELSE IF ref_count = 0
           THEN [set_gc_type(h1, node, COLLECTABLE) EXCEPT !._gc_required = TRUE]
           ELSE h1

\* _remove_parent_nodes_from_set, line 229: after it has taken the node out
\* of the local set it reads "node.parents", an attribute no GraphNode has
\* (a node's parents are in _parent_nodes): every call raises AttributeError.
_remove_parent_nodes_from_set_raises(h, node, nodes) == TRUE

\* _remove_parent_nodes_from_set, lines 225-226: what a call has done to the
\* local set when it raises.
_remove_parent_nodes_from_set(h, node, nodes) == nodes \ {node}

\* _perform_gc whose loop over the non-collectable nodes never raises and
\* takes no node out of the local set.
_perform_gc_never_raises(h) == FALSE

\* _perform_gc, lines 191-212: the loop over the non-collectable nodes raises
\* in its first turn.
_perform_gc_raises(h) ==
  /\ h._gc_required
  /\ \E node \in h._non_collectable_nodes :
        _remove_parent_nodes_from_set_raises(h, node, h._nodes)

\* _perform_gc, line 208, and lines 211-212 when the loop runs no turn
all_nodes(h) == h._nodes

\* _dispose_and_remove_node that does not clean the node up.
_dispose_and_remove_node_without_cleanup(h, node) ==
  [h EXCEPT !._nodes = @ \ {node},
            !._changed_nodes = @ \ {node},
            !._non_collectable_nodes = @ \ {node},
            !._nodes_with_updated_parents = @ \ {node}]

_dispose_and_remove_node(h, node) ==
  cleanup([h EXCEPT !._nodes = @ \ {node},
                    !._changed_nodes = @ \ {node},
                    !._non_collectable_nodes = @ \ {node},
                    !._nodes_with_updated_parents = @ \ {node}], node)

\* _perform_gc, lines 215-216
RECURSIVE dispose_and_remove_each(_, _)
dispose_and_remove_each(h, nodes) ==
  IF nodes = {}
  THEN h
  ELSE LET node == CHOOSE n \in nodes : TRUE
       IN  dispose_and_remove_each(_dispose_and_remove_node(h, node),
                                   nodes \ {node})

\* _perform_gc that sweeps whether a collection is required or not.
_perform_gc_unasked(h) ==
  dispose_and_remove_each([h EXCEPT !._gc_required = FALSE], all_nodes(h))

\* When the loop of lines 211-212 raises, line 193 has cleared the flag and
\* no node has been disposed of.
_perform_gc(h) ==
  IF ~h._gc_required
  THEN h
  ELSE IF _perform_gc_raises(h)
       THEN [h EXCEPT !._gc_required = FALSE]
       ELSE dispose_and_remove_each([h EXCEPT !._gc_required = FALSE],
                                    all_nodes(h))

get_node_count(h) == Cardinality(h._nodes)

\* dispose_nodes: "for node_id, node in self._nodes" takes the dict's keys,
\* which are id strings: unpacking one into two names raises ValueError (or,
\* for an id of two characters, cleanup() on a character raises
\* AttributeError) at the first node, before anything is changed.
dispose_nodes_raises(h) == h._nodes # {}

dispose_nodes(h) ==
  [h EXCEPT !._nodes = {}, !._non_collectable_nodes = {}, !._changed_nodes = {}]

\* dump: "for node in self._nodes" takes the dict's keys, which are id
\* strings, and node.node_id of a string raises AttributeError at the first
\* node.
dump_raises(h) == h._nodes # {}

\* What dump() returns when it returns: the list of the records its loop
\* made, which ran no turn.
dump(h) == <<>>

\* ------------------------------------------------------------------ actions

NoLog == <<>>
\* The program's node types as a value.
NodeTypes == [n \in Node |-> DepChoices(n)]
NodeTypesRebuilding == [n \in Node |-> DepChoicesRebuilding(n)]
NoParents == [n \in Node |-> {}]

\* The state after GraphManager(), with the calls the user may make.
Start(max_cycles, max_ops, max_releases, max_edge_ops, types) ==
  /\ _nodes = GraphManager__init__._nodes
  /\ _non_collectable_nodes = GraphManager__init__._non_collectable_nodes
  /\ _changed_nodes = GraphManager__init__._changed_nodes
  /\ _nodes_with_updated_parents = GraphManager__init__._nodes_with_updated_parents
  /\ _new_node_ids = GraphManager__init__._new_node_ids
  /\ _new_parents_this_calculation_cycle =
        GraphManager__init__._new_parents_this_calculation_cycle
  /\ _nodes_with_updated_late_parents =
        GraphManager__init__._nodes_with_updated_late_parents
  /\ late_shared = GraphManager__init__.late_shared
  /\ _gc_required = GraphManager__init__._gc_required
  /\ _is_calculating = GraphManager__init__._is_calculating
  /\ _parent_nodes = GraphManager__init__._parent_nodes
  /\ _child_nodes = GraphManager__init__._child_nodes
  /\ _child_nodes_for_this_calculation_cycle =
        GraphManager__init__._child_nodes_for_this_calculation_cycle
  /\ _invalid_count = GraphManager__init__._invalid_count
  /\ _needs_calculation = GraphManager__init__._needs_calculation
  /\ _updated_parent_nodes = GraphManager__init__._updated_parent_nodes
  /\ _gc_type = GraphManager__init__._gc_type
  /\ _gc_ref_count = GraphManager__init__._gc_ref_count
  /\ has_calculated = GraphManager__init__.has_calculated
  /\ _auto_rebuild_nodes = GraphManager__init__._auto_rebuild_nodes
  /\ quality = GraphManager__init__.quality
  /\ source_is_good = GraphManager__init__.source_is_good
  /\ has_set_dependencies = GraphManager__init__.has_set_dependencies
  /\ pc = "idle"
  /\ stack = <<>>
  /\ changed_nodes = {}
  /\ todo = {}
  /\ calc_log = NoLog
  /\ dnc_returned = FALSE
  /\ forced = {}
  /\ inv_parents = NoParents
  /\ resets = {}
  /\ gc_ran = FALSE
  /\ released = {}
  /\ raised = "none"
  /\ pins = [n \in Node |-> 0]
  /\ qualities = [q \in QualityObject |-> Quality__init__]
  /\ node_types = types
  /\ cycles = max_cycles
  /\ ops = max_ops
  /\ releases = max_releases
  /\ edge_ops = max_edge_ops

\* An operation of the user on the idle graph that takes the objects to h and
\* ends with the exception exc ("none" when it returns).
UserOp(h, exc) ==
  /\ pc = "idle"
  /\ Becomes(h)
  /\ raised' = exc
  /\ UNCHANGED <<ctlVars, calc_log, dnc_returned, forced, inv_parents, resets,
                 gc_ran, cycles, qualities, node_types>>

\* A call of a node's own edge methods, or of dispose().
EdgeOp(h, exc) ==
  /\ edge_ops > 0
  /\ edge_ops' = edge_ops - 1
  /\ UserOp(h, exc)
  /\ UNCHANGED <<released, pins, ops, releases>>

\* A call of NodeFactory.get_node, of add_node or of needs_calculation, which
\* ends with the exception exc.
ManagerOp(h, exc) ==
  /\ ops > 0
  /\ ops' = ops - 1
  /\ UserOp(h, exc)
  /\ UNCHANGED <<released, releases, edge_ops>>

\* NodeFactory.get_node(graph_manager, gc_type, <type and identity of node>)
GetNode(gc_type, node) ==
  /\ gc_type = NON_COLLECTABLE =>
        (IF node \in _nodes THEN _gc_ref_count[node] ELSE 0) < MaxRefCount
  /\ ManagerOp(get_node(heap, gc_type, node), "none")
  /\ pins' = IF gc_type = NON_COLLECTABLE
             THEN [pins EXCEPT ![node] = @ + 1]
             ELSE pins

\* graph_manager.add_node(GraphNode(<id of node>, graph_manager, ...)): the
\* user makes a node object and adds it. An object made with the id of a node
\* of the graph is another object than that node, and is dropped when add_node
\* has raised.
AddNode(node) ==
  /\ IF add_node_raises(heap, node)
     THEN ManagerOp(add_node(heap, node), "GraphException")
     ELSE ManagerOp(add_node(GraphNode__init__(heap, node), node), "none")
  /\ UNCHANGED pins

\* node.needs_calculation()
NeedsCalculation(node) ==
  /\ node \in _nodes
  /\ ManagerOp(needs_calculation(heap, node), "none")
  /\ UNCHANGED pins

\* node.set_value(value, source_is_good), node being a source
SetValue(node, is_good) ==
  /\ node \in _nodes \cap SourceNodes
  /\ ManagerOp(set_value(heap, node, is_good), "none")
  /\ UNCHANGED pins

\* graph_manager.dump()
Dump ==
  /\ ManagerOp(heap, IF dump_raises(heap) THEN "AttributeError" ELSE "none")
  /\ UNCHANGED pins

\* graph_manager.release_node(node), the user holding a node of the graph
ReleaseNode(node) ==
  /\ node \in _nodes
  /\ _gc_ref_count[node] > 0 - MaxUnderflow
  /\ releases > 0
  /\ releases' = releases - 1
  /\ UserOp(release_node(heap, node),
            IF release_node_raises(heap, node) THEN "GraphException" ELSE "none")
  /\ released' = IF _gc_ref_count[node] = 1 THEN released \cup {node} ELSE released
  /\ pins' = IF pins[node] > 0 THEN [pins EXCEPT ![node] = @ - 1] ELSE pins
  /\ UNCHANGED <<ops, edge_ops>>

\* node.add_parent(parent)
AddParent(node, parent) ==
  /\ node \in _nodes /\ parent \in _nodes /\ parent \in Lower(node)
  /\ EdgeOp(add_parent(heap, node, parent), "none")

\* node.add_parent_node(<type and identity of parent>, auto_rebuild=...)
AddParentNode(node, parent, auto_rebuild) ==
  /\ node \in _nodes /\ parent \in Lower(node)
  /\ EdgeOp(add_parent_node(heap, node, parent, auto_rebuild), "none")

\* node.remove_parent(parent)
RemoveParent(node, parent) ==
  /\ node \in _nodes /\ parent \in _nodes
  /\ EdgeOp(remove_parent(heap, node, parent), "none")

\* node.remove_parents()
RemoveParents(node) ==
  /\ node \in _nodes
  /\ EdgeOp(remove_parents(heap, node), "none")

\* node.remove_children()
RemoveChildren(node) ==
  /\ node \in _nodes
  /\ EdgeOp(remove_children(heap, node), "none")

\* node.reset_dependencies(), its set_dependencies() declaring d
ResetDependencies(node, d) ==
  /\ node \in _nodes
  /\ EdgeOp(reset_dependencies(heap, node, d), "none")

\* graph_manager.dispose()
Dispose ==
  IF dispose_nodes_raises(heap)
  THEN EdgeOp(heap, "ValueError")
  ELSE EdgeOp(dispose_nodes(heap), "none")

\* A call of a method of the Quality object q that leaves it as self.
QualityOp(q, self) ==
  /\ qualities' = [qualities EXCEPT ![q] = self]
  /\ UNCHANGED <<mgrVars, nodeVars, ctlVars, histVars, pins, node_types,
                 budgetVars>>

\* q.clear_to_good()
ClearToGood(q) == QualityOp(q, clear_to_good(qualities[q]))

\* q.set_to_bad(description)
SetToBad(q, description) == QualityOp(q, set_to_bad(qualities[q], description))

\* q.set_from(other)
SetFrom(q, other) == QualityOp(q, set_from(qualities[q], qualities[other]))

\* q.merge(quality, description), quality being a level
MergeLevel(q, a_quality, description) ==
  QualityOp(q, merge(qualities[q], a_quality, description))

\* q.merge(other), other being a Quality object
Merge(q, other) == QualityOp(q, merge(qualities[q], qualities[other], None))

\* ---------------------------------------------------------------- calculate()

\* calculate() is left: by its return or by an exception.
Leave(exc) ==
  /\ pc' = "idle"
  /\ stack' = <<>>
  /\ changed_nodes' = {}
  /\ todo' = {}
  /\ calc_log' = NoLog
  /\ dnc_returned' = FALSE
  /\ forced' = {}
  /\ inv_parents' = NoParents
  /\ resets' = {}
  /\ gc_ran' = FALSE
  /\ raised' = exc

\* calculate(), line 141
CalculateStart ==
  /\ pc = "idle"
  /\ cycles > 0
  /\ cycles' = cycles - 1
  /\ Becomes([heap EXCEPT !._is_calculating = TRUE])
  /\ pc' = "new_nodes"
  /\ raised' = "none"
  /\ UNCHANGED <<stack, changed_nodes, todo, calc_log, dnc_returned, forced,
                 inv_parents, resets, gc_ran, released, pins, qualities,
                 node_types, ops, releases, edge_ops>>

\* _set_dependencies_on_new_nodes is entered (lines 256-263); with no new
\* node it returns and calculate() goes on with its lines 148-154.
NewNodes ==
  /\ pc = "new_nodes"
  /\ IF _new_node_ids # {}
     THEN /\ todo' = _new_node_ids
          /\ Becomes([heap EXCEPT !._new_node_ids = {}])
          /\ pc' = "set_dependencies"
          /\ UNCHANGED changed_nodes
     ELSE IF _changed_nodes # {}
     THEN /\ changed_nodes' = _changed_nodes
          /\ todo' = _changed_nodes
          /\ Becomes([heap EXCEPT !._changed_nodes = {}])
          /\ pc' = "invalidate"
     ELSE /\ pc' = "after_validate"
          /\ Becomes(heap)
          /\ UNCHANGED <<changed_nodes, todo>>
  /\ UNCHANGED <<stack, histVars, userVars>>

\* _set_dependencies_on_new_nodes that does not call itself after its loop:
\* after the last turn calculate() goes on with its lines 148-154.
SetDependenciesInOnePass(node_id, d) ==
  /\ pc = "set_dependencies"
  /\ node_id \in todo
  /\ IF node_id \in _nodes THEN d \in node_types[node_id] ELSE d = NoDeps
  /\ LET h == IF node_id \in _nodes
               THEN set_dependencies(heap, node_id, d)
               ELSE heap
     IN  IF todo \ {node_id} # {}
         THEN /\ Becomes(h)
              /\ todo' = todo \ {node_id}
              /\ pc' = "set_dependencies"
              /\ UNCHANGED changed_nodes
         ELSE /\ changed_nodes' = h._changed_nodes
              /\ todo' = h._changed_nodes
              /\ Becomes([h EXCEPT !._changed_nodes = {}])
              /\ pc' = IF h._changed_nodes # {} THEN "invalidate"
                                               ELSE "after_validate"
  /\ UNCHANGED <<stack, histVars, userVars>>

\* _set_dependencies_on_new_nodes, lines 265-276: one turn of the loop; after
\* the last one the function calls itself.
SetDependencies(node_id, d) ==
  /\ pc = "set_dependencies"
  /\ node_id \in todo
  /\ IF node_id \in _nodes
     THEN d \in node_types[node_id] /\ Becomes(set_dependencies(heap, node_id, d))
     ELSE d = NoDeps /\ Becomes(heap)
  /\ todo' = todo \ {node_id}
  /\ pc' = IF todo' = {} THEN "new_nodes" ELSE "set_dependencies"
  /\ UNCHANGED <<stack, changed_nodes, histVars, userVars>>

\* A call of validate(): the node, the children it has still to visit and what
\* its calculate() returned.
Frame(node, children, calculate_children) ==
  [node |-> node, todo |-> children, calculate_children |-> calculate_children]

\* The calls whose loop is over return.
RECURSIVE Return(_)
Return(stk) ==
  IF stk # <<>> /\ stk[Len(stk)].todo = {}
  THEN Return(SubSeq(stk, 1, Len(stk) - 1))
  ELSE stk

\* The stack when the innermost call has picked child from its loop.
Picked(child) ==
  [stack EXCEPT ![Len(stack)].todo = @ \ {child}]

\* calculate(), lines 157-158: one turn of the loop.
InvalidateRoot(node) ==
  /\ pc = "invalidate"
  /\ node \in todo
  /\ LET h == invalidate(heap, node, None)
     IN  /\ Becomes(h)
         /\ inv_parents' =
              [n \in Node |-> IF _invalid_count[n] = 0 /\ h._invalid_count[n] > 0
                              THEN _parent_nodes[n] ELSE inv_parents[n]]
  /\ todo' = IF todo = {node} THEN changed_nodes ELSE todo \ {node}
  /\ pc' = IF todo = {node} THEN "validate" ELSE "invalidate"
  /\ UNCHANGED <<stack, changed_nodes, calc_log, dnc_returned, forced, resets,
                 gc_ran, released, raised, userVars>>

\* self.validate() is called on the objects h, with stk the calls around it
\* and roots the nodes calculate() has still to validate.
ValidateCall(h, self, stk, roots, forces) ==
  IF h._invalid_count[self] <= 0
  THEN /\ Becomes(h)
       /\ Leave("GraphException")
       /\ UNCHANGED <<released, userVars>>
  ELSE LET calculates == validate_calculates(h, self)
           rebuilds == calculates /\ pre_calculate_resets(h, self)
       IN  \E d \in IF rebuilds THEN node_types[self] ELSE {NoDeps} :
           \E calculate_children \in
                IF calculates
                THEN {CALCULATE_CHILDREN, DO_NOT_CALCULATE_CHILDREN}
                ELSE {DO_NOT_CALCULATE_CHILDREN} :
             LET h1 == validate(h, self, d)
                 stk1 == IF h1._invalid_count[self] = 0
                         THEN Append(stk, Frame(self,
                                h1._child_nodes_for_this_calculation_cycle[self],
                                calculate_children))
                         ELSE stk
                 stk2 == Return(stk1)
                 done == stk2 = <<>> /\ roots = {}
             IN  /\ Becomes(h1)
                 /\ stack' = stk2
                 /\ todo' = roots
                 /\ pc' = IF done THEN "after_validate" ELSE "validate"
                 /\ calc_log' = IF calculates
                                THEN Append(calc_log, self)
                                ELSE calc_log
                 /\ dnc_returned' =
                      (dnc_returned \/
                       (calculates /\
                        calculate_children = DO_NOT_CALCULATE_CHILDREN))
                 /\ forced' = IF forces THEN forced \cup {self} ELSE forced
                 /\ resets' = IF rebuilds THEN resets \cup {self} ELSE resets
                 /\ UNCHANGED <<changed_nodes, inv_parents, gc_ran, released,
                                raised, userVars>>

\* calculate(), lines 161-162
ValidateRoot(node) ==
  /\ pc = "validate" /\ stack = <<>>
  /\ node \in todo
  /\ ValidateCall(heap, node, stack, todo \ {node}, FALSE)

\* validate(), lines 272-279
ValidateChild(child_node) ==
  /\ pc = "validate" /\ stack # <<>>
  /\ child_node \in stack[Len(stack)].todo
  /\ ValidateCall(
       IF stack[Len(stack)].calculate_children = CALCULATE_CHILDREN
       THEN [heap EXCEPT !._needs_calculation[child_node] = TRUE]
       ELSE heap,
       child_node, Picked(child_node), todo,
       stack[Len(stack)].calculate_children = CALCULATE_CHILDREN)

\* calculate(), lines 164-172: what follows the validate loop. Nothing in it
\* calls a method a node type overrides.
AfterValidate ==
  /\ pc = "after_validate"
  /\ IF _mark_nodes_with_updated_late_parents_raises(after_validate(heap))
     THEN /\ Becomes(after_validate(heap))
          /\ Leave("TypeError")
     ELSE IF _perform_gc_raises(after_validate(heap))
     THEN /\ Becomes(_perform_gc(after_validate(heap)))
          /\ Leave("AttributeError")
     ELSE /\ Becomes(_perform_gc(after_validate(heap)))
          /\ pc' = "return"
          /\ gc_ran' = after_validate(heap)._gc_required
          /\ UNCHANGED <<stack, changed_nodes, todo, calc_log, dnc_returned,
                         forced, inv_parents, resets, raised>>
  /\ UNCHANGED <<released, userVars>>

\* calculate(), line 174, and its return
CalculateReturn ==
  /\ pc = "return"
  /\ Becomes([heap EXCEPT !._is_calculating = FALSE])
  /\ Leave("none")
  /\ released' = {}
  /\ UNCHANGED userVars

\* A step of calculate().
Calculate ==
  \/ CalculateStart
  \/ NewNodes
  \/ \E node_id \in Node : \E d \in node_types[node_id] \cup {NoDeps} :
        SetDependencies(node_id, d)
  \/ \E node \in Node : InvalidateRoot(node)
  \/ \E node \in Node : ValidateRoot(node)
  \/ \E node \in Node : ValidateChild(node)
  \/ AfterValidate
  \/ CalculateReturn

\* A program that gets and adds nodes, marks nodes for calculation and
\* calculates.
Init == Start(MaxCycles, MaxOps, 0, 0, NodeTypes)

Next ==
  \/ \E gc_type \in {COLLECTABLE, NON_COLLECTABLE}, node \in Node :
        GetNode(gc_type, node)
  \/ \E node \in Node : AddNode(node)
  \/ \E node \in Node : NeedsCalculation(node)
  \/ Calculate

Spec == Init /\ [][Next]_vars

\* A program that gets nodes, releases them and calculates.
InitGC == Start(MaxCycles, MaxOps, MaxReleases, 0, NodeTypes)

NextGC ==
  \/ \E gc_type \in {COLLECTABLE, NON_COLLECTABLE}, node \in Node :
        GetNode(gc_type, node)
  \/ \E node \in Node : ReleaseNode(node)
  \/ Calculate

SpecGC == InitGC /\ [][NextGC]_vars

\* A program that gets nodes, changes their edges itself and calculates.
InitEdges == Start(MaxCycles, MaxEdgeGets, 0, MaxEdgeOps, NodeTypes)

NextEdges ==
  \/ \E gc_type \in {COLLECTABLE, NON_COLLECTABLE}, node \in Node :
        GetNode(gc_type, node)
  \/ \E node, parent \in Node : AddParent(node, parent)
  \/ \E node, parent \in Node, auto_rebuild \in BOOLEAN :
        AddParentNode(node, parent, auto_rebuild)
  \/ \E node, parent \in Node : RemoveParent(node, parent)
  \/ \E node \in Node : RemoveParents(node)
  \/ \E node \in Node : RemoveChildren(node)
  \/ \E node \in Node : \E d \in node_types[node] : ResetDependencies(node, d)
  \/ Dispose
  \/ Calculate

SpecEdges == InitEdges /\ [][NextEdges]_vars

\* A program that makes Quality objects and calls their methods.
InitQuality == Start(0, 0, 0, 0, NodeTypes)

NextQuality ==
  \/ \E q \in QualityObject : ClearToGood(q)
  \/ \E q \in QualityObject, description \in Description :
        SetToBad(q, description)
  \/ \E q, other \in QualityObject : SetFrom(q, other)
  \/ \E q \in QualityObject, a_quality \in {GOOD, BAD},
        description \in Description : MergeLevel(q, a_quality, description)
  \/ \E q, other \in QualityObject : Merge(q, other)

SpecQuality == InitQuality /\ [][NextQuality]_vars

\* A program that gets nodes, gives its sources good and bad data, dumps the
\* graph and calculates.
InitSources == Start(MaxCycles, MaxSourceOps, 0, 0, NodeTypes)

NextSources ==
  \/ \E gc_type \in {COLLECTABLE, NON_COLLECTABLE}, node \in Node :
        GetNode(gc_type, node)
  \/ \E node \in Node, is_good \in BOOLEAN : SetValue(node, is_good)
  \/ Dump
  \/ Calculate

SpecSources == InitSources /\ [][NextSources]_vars

\* A program with two node types that rebuild, which gets nodes, marks them
\* for calculation and calculates.
InitLate == Start(MaxCycles, MaxOps, 0, 0, NodeTypesRebuilding)

NextLate ==
  \/ \E gc_type \in {COLLECTABLE, NON_COLLECTABLE}, node \in Node :
        GetNode(gc_type, node)
  \/ \E node \in Node : NeedsCalculation(node)
  \/ Calculate

SpecLate == InitLate /\ [][NextLate]_vars

\* ------------------------------------------------------------------- claims

\* The nodes whose calculate() ran in this cycle.
Calculated == {calc_log[i] : i \in 1..Len(calc_log)}

\* How many times n's calculate() ran in this cycle.
TimesCalculated(n) == Cardinality({i \in 1..Len(calc_log) : calc_log[i] = n})

\* p's calculate() ran in this cycle before any run of c's.
CalculatedBefore(p, c) ==
  \A j \in 1..Len(calc_log) :
     calc_log[j] = c => \E i \in 1..(j - 1) : calc_log[i] = p

\* The nodes of S with all their ancestors along the parent edges.
RECURSIVE WithAncestors(_)
WithAncestors(S) ==
  LET T == S \cup UNION {_parent_nodes[n] : n \in S}
  IN  IF T = S THEN S ELSE WithAncestors(T)

\* The pinned nodes of the graph.
Pinned == {n \in _nodes : _gc_type[n] = NON_COLLECTABLE}

\* calculate() has got to its end without an exception.
CycleCompleted == pc = "return"

\* C1: in a cycle no node's calculate() runs more than once.
SingleCalculate == \A n \in Node : TimesCalculated(n) <= 1

\* Two dirty nodes, one a parent of the other, have both calculated in a
\* cycle that completed.
SingleCalculateWitness ==
  /\ CycleCompleted
  /\ \E p, c \in changed_nodes :
        p \in inv_parents[c] /\ p \in Calculated /\ c \in Calculated

\* C2: once a node's calculate() has run in a cycle, every parent it had when
\* it was invalidated has invalidation count zero, needs no calculation and
\* has calculated, in this cycle or an earlier one.
ParentsFirst ==
  \A n \in Calculated : \A p \in inv_parents[n] :
     /\ _invalid_count[p] = 0
     /\ ~_needs_calculation[p]
     /\ has_calculated[p]

\* In the validate phase a node has calculated that had two parents when it
\* was invalidated, both of which calculated in this cycle.
ParentsFirstWitness ==
  /\ pc = "validate"
  /\ \E n \in Calculated :
        /\ Cardinality(inv_parents[n]) = 2
        /\ inv_parents[n] \subseteq Calculated

\* C3, as stated: for every edge (p, c) of the graph, if both calculate in a
\* cycle, p calculates before c.
TopologicalAnyEdge ==
  \A p, c \in Node :
     (c \in _child_nodes[p] /\ p \in Calculated /\ c \in Calculated)
        => CalculatedBefore(p, c)

\* C3, amended: for every edge (p, c) the graph had when c was invalidated,
\* if both calculate in the cycle, p calculates before c.
TopologicalInvalidatedEdge ==
  \A p, c \in Node :
     (p \in inv_parents[c] /\ p \in Calculated /\ c \in Calculated)
        => CalculatedBefore(p, c)

\* A node that reset its dependencies in this cycle and a parent it had when
\* it was invalidated have both calculated.
TopologicalWitness ==
  \E c \in resets : \E p \in inv_parents[c] :
     p \in Calculated /\ c \in Calculated

\* The graph is the diamond 1 -> {2, 3} -> 4 and this cycle started with
\* node 1 alone marked for calculation.
DiamondCycle ==
  /\ pc \in {"validate", "after_validate", "return"}
  /\ {1, 2, 3, 4} \subseteq _nodes
  /\ _parent_nodes[1] = {}
  /\ _parent_nodes[2] = {1}
  /\ _parent_nodes[3] = {1}
  /\ _parent_nodes[4] = {2, 3}
  /\ changed_nodes = {1}

\* C4: in the diamond with the root alone dirty, the leaf's invalidation
\* count is 2 after the invalidate phase; the leaf does not calculate while
\* its count is positive, calculates at most once and only after both middle
\* nodes; and when every calculate() returns CALCULATE_CHILDREN, it has
\* calculated exactly once by the end of the validate phase.
DiamondCorrectness ==
  DiamondCycle =>
    /\ (pc = "validate" /\ calc_log = <<>>) => _invalid_count[4] = 2
    /\ _invalid_count[4] > 0 => 4 \notin Calculated
    /\ 4 \in Calculated => CalculatedBefore(2, 4) /\ CalculatedBefore(3, 4)
    /\ (pc # "validate" /\ ~dnc_returned) =>
          /\ TimesCalculated(4) = 1
          /\ Calculated = {1, 2, 3, 4}

\* The cycle on the diamond completed, every calculate() returned
\* CALCULATE_CHILDREN and the leaf calculated.
DiamondWitness ==
  /\ DiamondCycle
  /\ CycleCompleted
  /\ ~dnc_returned
  /\ 4 \in Calculated

\* No call of calculate() is under way.
BetweenCycles == pc = "idle"

\* C5: when calculate() has got to its end, and between the cycles, every
\* node's invalidation count is zero.
InvalidCountZero ==
  (CycleCompleted \/ BetweenCycles) => \A n \in Node : _invalid_count[n] = 0

\* A cycle completed in which a node reset its dependencies and created a
\* node, and in which a node with two invalidated parents calculated.
InvalidCountZeroWitness ==
  /\ CycleCompleted
  /\ resets # {}
  /\ _new_node_ids # {}
  /\ \E n \in Calculated : Cardinality(inv_parents[n] \cap Calculated) = 2

\* C6: in every state, p is a parent of n if and only if n is a child of p.
EdgeSymmetry ==
  \A n, p \in Node : p \in _parent_nodes[n] <=> n \in _child_nodes[p]

\* The user has changed an edge, a cycle has got to its collection, which
\* raised, and the graph has an edge.
EdgeSymmetryWitness ==
  /\ BetweenCycles
  /\ raised = "AttributeError"
  /\ edge_ops = 0
  /\ \E n \in _nodes : _parent_nodes[n] # {}

GCCompleteness ==
  [][(/\ AfterValidate
      /\ ~_mark_nodes_with_updated_late_parents_raises(after_validate(heap))
      /\ after_validate(heap)._gc_required) =>
        _nodes' \subseteq WithAncestors(Pinned)']_vars

\* C9: no step removes from the graph a node that is pinned or an ancestor of
\* a pinned node.
GCSafety ==
  [][\A n \in WithAncestors(Pinned) : n \in _nodes']_vars

\* calculate() got to its collection after a release and has ended, and a
\* released node, collectable with ref-count zero, that is an ancestor of a
\* pinned node is in the graph.
GCSafetyWitness ==
  /\ BetweenCycles
  /\ raised = "AttributeError"
  /\ \E n \in released \cap _nodes :
        /\ _gc_type[n] = COLLECTABLE
        /\ _gc_ref_count[n] = 0
        /\ n \in WithAncestors(Pinned)

\* calculate() has ended, by its return, by the TypeError of
\* _mark_nodes_with_updated_late_parents or by the AttributeError of
\* _perform_gc.
CycleEnded ==
  CycleCompleted \/ (BetweenCycles /\ raised \in {"TypeError", "AttributeError"})

\* C10: when a call of calculate() has ended after nodes were released to
\* ref-count zero, a released node is in the graph if and only if it is pinned
\* again or an ancestor of a pinned node; and if no node is pinned, the node
\* count is 0.
ReleaseReachability ==
  (CycleEnded /\ released # {}) =>
     /\ \A n \in released : n \in _nodes <=> n \in WithAncestors(Pinned)
     /\ Pinned = {} => get_node_count(heap) = 0

\* The node object n is the same in h1 and h2, but for its GC type and
\* ref-count.
SameNodeObject(h1, h2, n) ==
  /\ h2._parent_nodes[n] = h1._parent_nodes[n]
  /\ h2._child_nodes[n] = h1._child_nodes[n]
  /\ h2._child_nodes_for_this_calculation_cycle[n] =
        h1._child_nodes_for_this_calculation_cycle[n]
  /\ h2._invalid_count[n] = h1._invalid_count[n]
  /\ h2._needs_calculation[n] = h1._needs_calculation[n]
  /\ h2._updated_parent_nodes[n] = h1._updated_parent_nodes[n]
  /\ h2.has_calculated[n] = h1.has_calculated[n]
  /\ h2._auto_rebuild_nodes[n] = h1._auto_rebuild_nodes[n]

\* C11: in every state, two requests of the factory for the same id give the
\* same node: the first makes the node count greater by one if the graph does
\* not have the id and leaves a node it has as it is, the second leaves the
\* count and the node as they are; the node is in the graph under its id.
Deduplication ==
  \A node \in Node : \A gc1, gc2 \in {COLLECTABLE, NON_COLLECTABLE} :
     LET h1 == get_node(heap, gc1, node)
         h2 == get_node(h1, gc2, node)
     IN  /\ get_node_count(h1) =
              get_node_count(heap) + (IF has_node(heap, node) THEN 0 ELSE 1)
         /\ get_node_count(h2) = get_node_count(h1)
         /\ has_node(h1, node)
         /\ has_node(heap, node) => SameNodeObject(heap, h1, node)
         /\ SameNodeObject(h1, h2, node)

\* A node that has calculated was requested a second time as
\* NON_COLLECTABLE, and nothing else was added to the graph.
DeduplicationWitness ==
  /\ BetweenCycles
  /\ \E n \in _nodes :
        /\ has_calculated[n]
        /\ _gc_ref_count[n] = 2
        /\ get_node_count(heap) = 1

\* C12: every pinned node has a ref-count of at least 1, and the manager's
\* set of non-collectable nodes holds exactly the pinned nodes.
PinnedRefCount ==
  /\ \A n \in Pinned : _gc_ref_count[n] >= 1
  /\ _non_collectable_nodes = Pinned

\* C13: a node stays pinned, and in the manager's set of non-collectable
\* nodes, while a NON_COLLECTABLE request for it is not yet answered by a
\* release, and it is collectable once each request is answered.
RefCountBalance ==
  /\ \A n \in Node :
        pins[n] >= 1 => n \in Pinned /\ n \in _non_collectable_nodes
  /\ \A n \in _nodes :
        pins[n] = 0 => n \notin Pinned /\ n \notin _non_collectable_nodes

\* C14: release_node on a node whose ref-count is 0 raises and leaves the
\* node's ref-count and GC type, the set of non-collectable nodes and
\* _gc_required as they were.
ReleaseUnderflowKeepsState ==
  [][\A node \in Node :
       (ReleaseNode(node) /\ _gc_ref_count[node] = 0) =>
          /\ raised' = "GraphException"
          /\ _gc_ref_count'[node] = _gc_ref_count[node]
          /\ _gc_type'[node] = _gc_type[node]
          /\ _non_collectable_nodes' = _non_collectable_nodes
          /\ _gc_required' = _gc_required]_vars

\* C15: add_node of an object with the id of a node of the graph raises and
\* leaves _nodes, _changed_nodes, _new_node_ids and the node as they were;
\* add_node of an object with a new id puts it into _nodes, sets its
\* _needs_calculation, and puts it into _changed_nodes and its id into
\* _new_node_ids.
AddNodeContract ==
  [][\A node \in Node :
       AddNode(node) =>
          IF node \in _nodes
          THEN /\ raised' = "GraphException"
               /\ UNCHANGED <<_nodes, _changed_nodes, _new_node_ids, nodeVars>>
          ELSE /\ raised' = "none"
               /\ _nodes' = _nodes \cup {node}
               /\ _needs_calculation'[node]
               /\ node \in _changed_nodes'
               /\ node \in _new_node_ids']_vars

\* add_node has raised for the id of a node that was added and is not yet
\* set up by a cycle.
AddNodeContractWitness ==
  /\ BetweenCycles
  /\ raised = "GraphException"
  /\ _new_node_ids # {}

\* C16: after dispose() the node count is 0 and every node that was in the
\* graph has no parent and no child.
DisposeCleansUp ==
  [][Dispose =>
       /\ Cardinality(_nodes') = 0
       /\ \A n \in _nodes : _parent_nodes'[n] = {} /\ _child_nodes'[n] = {}]_vars

\* C17: after dispose() the manager's collections are all empty.
DisposeEmptiesState ==
  [][Dispose =>
       /\ _nodes' = {}
       /\ _non_collectable_nodes' = {}
       /\ _changed_nodes' = {}
       /\ _new_node_ids' = {}
       /\ _nodes_with_updated_parents' = {}
       /\ \A n \in Node :
             /\ _new_parents_this_calculation_cycle'[n] = {}
             /\ _nodes_with_updated_late_parents'[n] = {}]_vars

\* C18: when a cycle has completed, a node's has_calculated is true if and
\* only if its calculate() ran in that cycle.
HasCalculatedLatestCycle ==
  CycleCompleted => \A n \in _nodes : has_calculated[n] <=> n \in Calculated

\* C19: a node's calculate() runs in a cycle only if the node was in the
\* cycle's copy of the changed nodes (marked, or added, before the invalidate
\* phase) or a parent's validate() of this cycle set its _needs_calculation;
\* and a validate() call sets the flag of its children only if the node's
\* calculate() ran in this cycle (and returned CALCULATE_CHILDREN).
MinimalRecalculation ==
  /\ \A n \in Calculated : n \in changed_nodes \/ n \in forced
  /\ \A i \in 1..Len(stack) :
        stack[i].node \notin Calculated =>
           stack[i].calculate_children = DO_NOT_CALCULATE_CHILDREN

\* A cycle completed in which a node that was not marked calculated because
\* its parent returned CALCULATE_CHILDREN, and a node whose parent calculated
\* passed invalidate and validate without calculating.
MinimalRecalculationWitness ==
  /\ CycleCompleted
  /\ \E n \in forced \ changed_nodes : n \in Calculated
  /\ \E n \in _nodes \ Calculated : inv_parents[n] \cap Calculated # {}

\* The Quality that is Good, without descriptions.
GoodQuality == clear_to_good(Quality__init__)

\* C20: for the Quality objects a and b the user holds (a and b may be one
\* object), a.merge(b) and b.merge(a) leave equal values, a.merge(a) leaves a
\* as it was, merging with (Good, {}) on either side gives a, the result is
\* Bad if a or b is, and its descriptions are those of a and of b.
MergeLaws ==
  \A a, b \in QualityObject :
     LET x == qualities[a]
         y == qualities[b]
         xy == merge(x, y, None)
         yx == merge(y, x, None)
     IN  /\ Quality__eq__(xy, yx)
         /\ Quality__eq__(merge(x, x, None), x)
         /\ Quality__eq__(merge(x, GoodQuality, None), x)
         /\ Quality__eq__(merge(GoodQuality, x, None), x)
         /\ (x._quality = BAD \/ y._quality = BAD) => xy._quality = BAD
         /\ xy._descriptions = x._descriptions \cup y._descriptions

\* The user holds a Bad Quality with two descriptions and a Good one with a
\* description.
MergeLawsWitness ==
  \E a, b \in QualityObject :
     /\ qualities[a]._quality = BAD
     /\ Cardinality(qualities[a]._descriptions) = 2
     /\ qualities[b]._quality = GOOD
     /\ qualities[b]._descriptions # {}

\* The validate phase of a cycle is over: no calculate() runs any more in
\* this call, whether it returns or ends with an exception.
ValidateOver == pc \in {"after_validate", "return"}

\* clear_to_good() merged with the qualities the nodes of parents have in
\* qualities_of: Bad if and only if one of them is Bad, with the union of
\* their descriptions.
MergedQuality(qualities_of, parents) ==
  [_quality |-> IF \E p \in parents : qualities_of[p]._quality = BAD
                THEN BAD ELSE GOOD,
   _descriptions |-> UNION {qualities_of[p]._descriptions : p \in parents}]

\* clear_to_good() merged with the quality each parent of n has now.
MergedParentQuality(n) == MergedQuality(quality, _parent_nodes[n])

\* C21, as stated: when the validate phase of a cycle is over, the quality of
\* every node of a default type that calculated in the cycle is
\* clear_to_good() merged with the current quality of each of its parents.
DefaultQualityPropagation ==
  ValidateOver =>
    \A n \in (Calculated \cap _nodes) \ SourceNodes :
       quality[n] = MergedParentQuality(n)

\* C21, amended: the same for every such node none of whose parents
\* calculated after it in the cycle.
DefaultQualityPropagationInOrder ==
  ValidateOver =>
    \A n \in (Calculated \cap _nodes) \ SourceNodes :
       (\A p \in _parent_nodes[n] : p \in Calculated => CalculatedBefore(p, n))
          => quality[n] = MergedParentQuality(n)

\* A cycle completed in which a node of a default type calculated that has
\* two Bad parents with different descriptions, and got both descriptions.
DefaultQualityPropagationWitness ==
  /\ CycleCompleted
  /\ \E n \in Calculated \ SourceNodes :
        /\ quality[n]._quality = BAD
        /\ Cardinality(quality[n]._descriptions) = 2
        /\ \E p1, p2 \in _parent_nodes[n] :
              /\ quality[p1]._descriptions # {}
              /\ quality[p2]._descriptions # {}
              /\ quality[p1]._descriptions # quality[p2]._descriptions

\* This step runs the calculate() of self.
Calculates(self) ==
  /\ Len(calc_log') = Len(calc_log) + 1
  /\ calc_log'[Len(calc_log')] = self

\* C22: a step that runs a node's calculate() resets the node's dependencies
\* if and only if one of its updated parents is in its auto-rebuild set; and
\* then, for what its set_dependencies() declared, the node's parents are
\* the declared ones and they have it as a child, the old parents not
\* declared again do not have it as a child, its auto-rebuild set is the
\* parents declared with auto_rebuild, the parents the manager has recorded
\* it under are those it has now and had not before, and its quality is
\* merged from the parents it has now.
AutoRebuild ==
  [][\A self \in Node :
       Calculates(self) =>
         /\ (self \in resets') =
               (_updated_parent_nodes[self] \cap _auto_rebuild_nodes[self] # {})
         /\ self \in resets' =>
               \E d \in node_types[self] :
                  /\ _parent_nodes'[self] = d.parents
                  /\ \A p \in d.parents : self \in _child_nodes'[p]
                  /\ \A p \in _parent_nodes[self] \ d.parents :
                        self \notin _child_nodes'[p]
                  /\ _auto_rebuild_nodes'[self] = d.auto
                  /\ \A p \in Node :
                        (self \in _new_parents_this_calculation_cycle'[p]) =
                           (p \in d.parents \ _parent_nodes[self])
                  /\ self \notin SourceNodes =>
                        quality'[self] = MergedQuality(quality', d.parents)]_vars

\* A node that reset its dependencies has calculated: it dropped a parent,
\* took a new one and has no auto-rebuild parent any more.
AutoRebuildWitness ==
  \E c \in resets \cap Calculated :
     /\ inv_parents[c] \ _parent_nodes[c] # {}
     /\ _parent_nodes[c] \ inv_parents[c] # {}
     /\ _auto_rebuild_nodes[c] = {}

\* In this cycle C took the new parent P through reset_dependencies and
\* calculated, and P calculated after it.
LateParent(P, C) ==
  /\ C \in resets \cap Calculated
  /\ P \in (_parent_nodes[C] \ inv_parents[C]) \cap Calculated
  /\ ~CalculatedBefore(P, C)

\* C23: when the validate phase of a cycle is over and calculate() goes on to
\* its end, every node C that took a new parent P through reset_dependencies
\* before P calculated in the cycle is, if it stays in the graph, in the
\* manager's set of changed nodes, needs calculation and has P among its
\* updated parents, so that the next cycle calculates it.
LateParentRecalculation ==
  [][AfterValidate =>
       \A P, C \in Node :
          (LateParent(P, C) /\ C \in _nodes') =>
             /\ C \in _changed_nodes'
             /\ _needs_calculation'[C]
             /\ P \in _updated_parent_nodes'[C]]_vars

\* Nothing is left for a cycle to do.
Quiescent ==
  /\ _changed_nodes = {}
  /\ _new_node_ids = {}
  /\ \A p \in Node : _nodes_with_updated_late_parents[p] = {}

\* C24: cycles repeated without input from outside come to a quiescent state
\* and stay there: a cycle that found no node to calculate, and after which
\* every further cycle finds the graph as this one did, ends with no changed
\* node, no new node and no late-parent record.
Convergence ==
  [][(AfterValidate /\ changed_nodes = {} /\ calc_log = NoLog) =>
        Quiescent']_vars

\* C25: a call of dump() returns, with a list that has one record for each
\* node of the graph, holding the node's id and the ids of its parents, and
\* changes no object of the manager or of a node.
DumpRecords ==
  [][Dump =>
       /\ raised' = "none"
       /\ Len(dump(heap)) = Cardinality(_nodes)
       /\ {dump(heap)[i] : i \in 1..Len(dump(heap))} =
             {[node_id |-> n, parent_ids |-> _parent_nodes[n]] : n \in _nodes}
       /\ UNCHANGED <<mgrVars, nodeVars>>]_vars

\* C26: in the invalidate phase the manager has no new node id and
\* set_dependencies() has been called on every node of the graph; in every
\* state, set_dependencies() has been called on every node whose calculate()
\* has run in this cycle, and no node that a cycle has still to set up (one
\* made by a reset_dependencies() of this cycle) has calculated in it.
NewNodeFixedPoint ==
  /\ pc = "invalidate" =>
        /\ _new_node_ids = {}
        /\ \A n \in _nodes : has_set_dependencies[n]
  /\ \A n \in Calculated : has_set_dependencies[n]
  /\ pc # "idle" => _new_node_ids \cap Calculated = {}

\* The validate phase is over in a cycle that set up a node which declared
\* parents, and in which a node that reset its dependencies made a node that
\* is still to be set up.
NewNodeFixedPointWitness ==
  /\ ValidateOver
  /\ \E n \in Calculated : _parent_nodes[n] # {} /\ n \notin resets
  /\ \E c \in resets \cap Calculated :
        \E p \in _parent_nodes[c] \cap _new_node_ids : ~has_set_dependencies[p]

\* C27: when the validate phase of a cycle is over, every node that was in
\* the manager's set of changed nodes when calculate() started has
\* calculated, and so has every node a parent's validate() forced; while a
\* validate() whose calculate() returned CALCULATE_CHILDREN is under way,
\* every captured child its loop has taken is forced; and marking a node
\* that is marked changes nothing.
DirtyNodesServed ==
  /\ ValidateOver => changed_nodes \cup forced \subseteq Calculated
  /\ \A i \in 1..Len(stack) :
        stack[i].calculate_children = CALCULATE_CHILDREN =>
           (_child_nodes_for_this_calculation_cycle[stack[i].node]
              \ stack[i].todo) \subseteq forced
  /\ \A n \in _nodes :
        needs_calculation(needs_calculation(heap, n), n) =
           needs_calculation(heap, n)

\* A cycle completed that started with two changed nodes, one of which had
\* calculated in an earlier cycle, and in which a node that was not changed
\* was forced by its parent.
DirtyNodesServedWitness ==
  /\ CycleCompleted
  /\ Cardinality(changed_nodes) = 2
  /\ cycles = MaxCycles - 2
  /\ forced \ changed_nodes # {}

\* The nodes on which a validate() call is still to come in this cycle: the
\* roots calculate() has not taken yet and the captured children the loops
\* of the active validate() calls have not taken yet.
AwaitingValidate ==
  (IF pc = "validate" THEN todo ELSE {}) \cup
  UNION {stack[i].todo : i \in 1..Len(stack)}

\* C28: every node on which validate() is still to be called has a positive
\* invalidation count, and no operation has ended with the GraphException
\* of validate().
ValidateNeverBreaksInvariant ==
  /\ \A n \in AwaitingValidate : _invalid_count[n] > 0
  /\ raised # "GraphException"

\* In the validate phase of a cycle in which a node reset its dependencies,
\* a child that was invalidated twice waits in the loop of a validate() call.
ValidateNeverBreaksInvariantWitness ==
  /\ pc = "validate"
  /\ resets # {}
  /\ stack # <<>>
  /\ \E c \in stack[Len(stack)].todo : _invalid_count[c] = 2

\* C29: a step puts a node C on the manager's record of the children to
\* mark for the next cycle on account of a late parent P only if it runs
\* P's calculate() and C had taken P as a new parent before: a node that
\* takes P when P has calculated is not put on the record, whoever took P
\* earlier.
OnlyLateChildrenRecorded ==
  [][\A P, C \in Node :
       (/\ C \in _nodes_with_updated_late_parents'[P]
        /\ C \notin _nodes_with_updated_late_parents[P]) =>
          /\ Calculates(P)
          /\ C \in _new_parents_this_calculation_cycle[P]]_vars

CalculatingOnlyInsideCalculate == BetweenCycles => ~_is_calculating

\* C38: when calculate() gets to _perform_gc with _gc_required set, the sweep
\* completes and calculate() gets to its return.
SweepCompletes ==
  [][(/\ AfterValidate
      /\ ~_mark_nodes_with_updated_late_parents_raises(after_validate(heap))
      /\ after_validate(heap)._gc_required) => pc' = "return"]_vars
\* C31: a call of remove_parent with a parent of the node, of remove_parents,
\* of remove_children on a node that has children or of reset_dependencies
\* leaves _gc_required set, and a call of remove_parent with a node that is
\* no parent leaves _gc_required as it was.
EdgeRemovalLatches ==
  [][/\ \A node, parent \in Node :
          RemoveParent(node, parent) =>
             IF parent \in _parent_nodes[node]
             THEN _gc_required'
             ELSE _gc_required' = _gc_required
     /\ \A node \in Node : RemoveParents(node) => _gc_required'
     /\ \A node \in Node :
          (RemoveChildren(node) /\ _child_nodes[node] # {}) => _gc_required'
     /\ \A node \in Node : \A d \in node_types[node] :
          ResetDependencies(node, d) => _gc_required']_vars
\* C32: when calculate() gets to _perform_gc with _gc_required set, right
\* after it _gc_required is set if the sweep took a node out of the graph and
\* clear if it took none.
GCRequiredRelatched ==
  [][(/\ AfterValidate
      /\ ~_mark_nodes_with_updated_late_parents_raises(after_validate(heap))
      /\ after_validate(heap)._gc_required) =>
        (_gc_required' <=> _nodes' # _nodes)]_vars

\* A cycle in which a node calculated has completed with a sweep that took
\* every node out of the graph, and _gc_required is set again.
GCRequiredRelatchedWitness ==
  /\ CycleCompleted
  /\ gc_ran
  /\ Calculated # {}
  /\ _nodes = {}
  /\ _gc_required
AbandonedParentCollected ==
  [][AfterValidate =>
       \A n \in resets :
          /\ \A Q \in inv_parents[n] \ _parent_nodes[n] :
                Q \notin WithAncestors(Pinned) => Q \notin _nodes'
          /\ n \in WithAncestors(Pinned) => _parent_nodes[n] \subseteq _nodes']_vars
\* C35: between the cycles every node's auto-rebuild set is a subset of its
\* parents.
AutoRebuildSubsetOfParents ==
  BetweenCycles =>
     \A n \in _nodes : _auto_rebuild_nodes[n] \subseteq _parent_nodes[n]
\* calculate() has ended its invalidate loop and has called validate() on no
\* node yet.
ValidateStarts ==
  pc = "validate" /\ stack = <<>> /\ todo = changed_nodes /\ calc_log = NoLog

PendingCalculationIsChanged ==
  BetweenCycles =>
     \A n \in _nodes : _needs_calculation[n] => n \in _changed_nodes
\* A cycle in which a node rebuilt its dependencies and made a new parent
\* has ended, and the new parent, which needs calculation and has not
\* calculated yet, is in the set of changed nodes.
PendingCalculationIsChangedWitness ==
  /\ BetweenCycles
  /\ cycles < MaxCycles
  /\ \E n \in _nodes \cap _new_node_ids :
        /\ _needs_calculation[n]
        /\ n \in _changed_nodes
        /\ \E m \in _child_nodes[n] : has_calculated[m]
====
